---------------------------- MODULE Spec2Model ----------------------------
(***************************************************************************)
(* urlencode (src/main.rs): a command-line filter that percent-encodes or  *)
(* percent-decodes its positional INPUT, or every line of standard input.  *)
(*                                                                         *)
(* Text is modelled as the sequence of its UTF-8 bytes (integers 0..255).  *)
(* The operators named after functions of the percent_encoding 1.0 crate   *)
(* and of std (percent_decode, utf8_percent_encode, the five *_ENCODE_SET  *)
(* predicates, from_utf8, from_utf8_lossy, trim_end, read_line) model the  *)
(* behaviour of the library function that main.rs calls at the mapped line.*)
(* The output stream is a sink that accepts every write.                   *)
(***************************************************************************)
EXTENDS Integers, Sequences, FiniteSets

(***************************************************************************)
(* Bytes and small helpers                                                 *)
(***************************************************************************)
RECURSIVE Flatten(_)
Flatten(ss) == IF ss = <<>> THEN <<>> ELSE Head(ss) \o Flatten(Tail(ss))

Drop(s, n) == SubSeq(s, n + 1, Len(s))

Take(s, n) == SubSeq(s, 1, n)

At(s, i) == IF i >= 1 /\ i <= Len(s) THEN s[i] ELSE -1

(***************************************************************************)
(* percent_encoding 1.0: the encode sets                                   *)
(***************************************************************************)
SIMPLE_ENCODE_SET_OffByOne(b) == b < 32 \/ b > 127

\* bytes below 0x20 and above 0x7E
SIMPLE_ENCODE_SET(b) == b < 32 \/ b > 126

\* SIMPLE plus space, '"', '#', '<', '>'
QUERY_ENCODE_SET(b) == SIMPLE_ENCODE_SET(b) \/ b \in {32, 34, 35, 60, 62}

\* QUERY plus '`', '?', '{', '}'
DEFAULT_ENCODE_SET(b) == QUERY_ENCODE_SET(b) \/ b \in {96, 63, 123, 125}

PATH_SEGMENT_ENCODE_SET_NoPercent(b) == DEFAULT_ENCODE_SET(b) \/ b = 47

\* DEFAULT plus '%', '/'
PATH_SEGMENT_ENCODE_SET(b) == DEFAULT_ENCODE_SET(b) \/ b \in {37, 47}

\* DEFAULT plus '/', ':', ';', '=', '@', '[', '\', ']', '^', '|'
USERINFO_ENCODE_SET(b) ==
    DEFAULT_ENCODE_SET(b) \/ b \in {47, 58, 59, 61, 64, 91, 92, 93, 94, 124}

EncodeSetNames == {"default", "path", "query", "simple", "userinfo"}

\* the match of transform_line on the value of --encode-set
EncodeSetContains(name, b) ==
    CASE name = "default"  -> DEFAULT_ENCODE_SET(b)
      [] name = "path"     -> PATH_SEGMENT_ENCODE_SET(b)
      [] name = "query"    -> QUERY_ENCODE_SET(b)
      [] name = "simple"   -> SIMPLE_ENCODE_SET(b)
      [] name = "userinfo" -> USERINFO_ENCODE_SET(b)

(***************************************************************************)
(* percent_encoding 1.0: encoding                                          *)
(***************************************************************************)
UpperHexDigit(n) == IF n < 10 THEN 48 + n ELSE 55 + n

LowerHexDigit(n) == IF n < 10 THEN 48 + n ELSE 87 + n

percent_encode_byte_lower(b) ==
    <<37, LowerHexDigit(b \div 16), LowerHexDigit(b % 16)>>

\* "%XX", two upper-case hexadecimal digits
percent_encode_byte(b) == <<37, UpperHexDigit(b \div 16), UpperHexDigit(b % 16)>>

\* length of the longest prefix of s whose bytes are not in the set
RECURSIVE UnescapedRun(_, _)
UnescapedRun(s, name) ==
    IF s = <<>> \/ EncodeSetContains(name, Head(s)) THEN 0
    ELSE 1 + UnescapedRun(Tail(s), name)

\* the chunks the PercentEncode iterator yields: one "%XX" per byte of the
\* set, one slice per maximal run of other bytes
RECURSIVE utf8_percent_encode(_, _)
utf8_percent_encode(s, name) ==
    IF s = <<>> THEN <<>>
    ELSE IF EncodeSetContains(name, Head(s))
         THEN <<percent_encode_byte(Head(s))>> \o utf8_percent_encode(Tail(s), name)
         ELSE LET n == UnescapedRun(s, name)
              IN  <<Take(s, n)>> \o utf8_percent_encode(Drop(s, n), name)

(***************************************************************************)
(* percent_encoding 1.0: decoding                                          *)
(***************************************************************************)
\* (b as char).to_digit(16); -1 stands for None
to_digit16(b) ==
    IF b >= 48 /\ b <= 57 THEN b - 48
    ELSE IF b >= 97 /\ b <= 102 THEN b - 87
    ELSE IF b >= 65 /\ b <= 70 THEN b - 55
    ELSE -1

\* after_percent_sign: the byte of the two hex digits at s[1], s[2], or -1
after_percent_sign(s) ==
    LET h == IF Len(s) >= 1 THEN to_digit16(s[1]) ELSE -1
        l == IF Len(s) >= 2 THEN to_digit16(s[2]) ELSE -1
    IN  IF h >= 0 /\ l >= 0 THEN h * 16 + l ELSE -1

\* a decoder that drops the two bytes after a malformed '%'
RECURSIVE percent_decode_noreset(_)
percent_decode_noreset(s) ==
    IF s = <<>> THEN <<>>
    ELSE IF Head(s) = 37
         THEN LET v == after_percent_sign(Tail(s))
              IN  IF v >= 0 THEN <<v>> \o percent_decode_noreset(Drop(s, 3))
                  ELSE <<37>> \o percent_decode_noreset(Drop(s, 3))
         ELSE <<Head(s)>> \o percent_decode_noreset(Tail(s))

\* a form decoder: '+' becomes a space
RECURSIVE percent_decode_plus(_)
percent_decode_plus(s) ==
    IF s = <<>> THEN <<>>
    ELSE IF Head(s) = 37
         THEN LET v == after_percent_sign(Tail(s))
              IN  IF v >= 0 THEN <<v>> \o percent_decode_plus(Drop(s, 3))
                  ELSE <<37>> \o percent_decode_plus(Tail(s))
         ELSE IF Head(s) = 43 THEN <<32>> \o percent_decode_plus(Tail(s))
         ELSE <<Head(s)>> \o percent_decode_plus(Tail(s))

\* the bytes the PercentDecode iterator yields
RECURSIVE percent_decode(_)
percent_decode(s) ==
    IF s = <<>> THEN <<>>
    ELSE IF Head(s) = 37
         THEN LET v == after_percent_sign(Tail(s))
              IN  IF v >= 0 THEN <<v>> \o percent_decode(Drop(s, 3))
                  ELSE <<37>> \o percent_decode(Tail(s))
         ELSE <<Head(s)>> \o percent_decode(Tail(s))

(***************************************************************************)
(* std: UTF-8 validation (from_utf8) and lossy conversion (from_utf8_lossy)*)
(***************************************************************************)
IsCont(b) == b >= 128 /\ b <= 191

\* utf8_char_width of a lead byte, 0 for a byte that starts no character
utf8_char_width(b) ==
    IF b < 128 THEN 1
    ELSE IF b >= 194 /\ b <= 223 THEN 2
    ELSE IF b >= 224 /\ b <= 239 THEN 3
    ELSE IF b >= 240 /\ b <= 244 THEN 4
    ELSE 0

\* the range check of the byte that follows a 3- or 4-byte lead byte
SecondByteOk(b1, b2) ==
    CASE b1 = 224               -> b2 >= 160 /\ b2 <= 191
      [] b1 >= 225 /\ b1 <= 236 -> b2 >= 128 /\ b2 <= 191
      [] b1 = 237               -> b2 >= 128 /\ b2 <= 159
      [] b1 >= 238 /\ b1 <= 239 -> b2 >= 128 /\ b2 <= 191
      [] b1 = 240               -> b2 >= 144 /\ b2 <= 191
      [] b1 >= 241 /\ b1 <= 243 -> b2 >= 128 /\ b2 <= 191
      [] b1 = 244               -> b2 >= 128 /\ b2 <= 143
      [] OTHER                  -> FALSE

\* One step of the chunk scanner on a non-empty s: [ok, n], where n is the
\* length of the character at the head of s (ok), or of the invalid
\* sequence that one U+FFFD replaces (~ok).
Utf8Step(s) ==
    LET b1 == s[1]
        w  == utf8_char_width(b1)
    IN  IF w = 1 THEN [ok |-> TRUE, n |-> 1]
        ELSE IF w = 2 THEN
            IF IsCont(At(s, 2)) THEN [ok |-> TRUE, n |-> 2]
            ELSE [ok |-> FALSE, n |-> 1]
        ELSE IF w = 3 THEN
            IF ~SecondByteOk(b1, At(s, 2)) THEN [ok |-> FALSE, n |-> 1]
            ELSE IF ~IsCont(At(s, 3)) THEN [ok |-> FALSE, n |-> 2]
            ELSE [ok |-> TRUE, n |-> 3]
        ELSE IF w = 4 THEN
            IF ~SecondByteOk(b1, At(s, 2)) THEN [ok |-> FALSE, n |-> 1]
            ELSE IF ~IsCont(At(s, 3)) THEN [ok |-> FALSE, n |-> 2]
            ELSE IF ~IsCont(At(s, 4)) THEN [ok |-> FALSE, n |-> 3]
            ELSE [ok |-> TRUE, n |-> 4]
        ELSE [ok |-> FALSE, n |-> 1]

\* from_utf8(s).is_ok()
RECURSIVE from_utf8_ok(_)
from_utf8_ok(s) ==
    IF s = <<>> THEN TRUE
    ELSE LET st == Utf8Step(s)
         IN  st.ok /\ from_utf8_ok(Drop(s, st.n))

REPLACEMENT == <<239, 191, 189>>

\* String::from_utf8_lossy(s): every invalid sequence becomes U+FFFD
RECURSIVE from_utf8_lossy(_)
from_utf8_lossy(s) ==
    IF s = <<>> THEN <<>>
    ELSE LET st == Utf8Step(s)
         IN  (IF st.ok THEN Take(s, st.n) ELSE REPLACEMENT)
             \o from_utf8_lossy(Drop(s, st.n))


\* the byte encodings of the characters with the White_Space property
WhiteSpace ==
    {<<9>>, <<10>>, <<11>>, <<12>>, <<13>>, <<32>>, <<194, 133>>, <<194, 160>>,
     <<225, 154, 128>>, <<226, 128, 168>>, <<226, 128, 169>>, <<226, 128, 175>>,
     <<226, 129, 159>>, <<227, 128, 128>>}
    \cup {<<226, 128, b>> : b \in 128..138}

EndsWith(s, w) == Len(s) >= Len(w) /\ SubSeq(s, Len(s) - Len(w) + 1, Len(s)) = w

\* str::trim_end: removes every trailing white-space character
RECURSIVE trim_end(_)
trim_end(s) ==
    IF \E w \in WhiteSpace : EndsWith(s, w)
    THEN LET w == CHOOSE x \in WhiteSpace : EndsWith(s, x)
         IN  trim_end(Take(s, Len(s) - Len(w)))
    ELSE s

\* BufRead::read_until(b'\n'): the number of bytes up to and including the
\* first newline of s, or all of s
RECURSIVE read_until_newline(_)
read_until_newline(s) ==
    IF s = <<>> THEN 0
    ELSE IF Head(s) = 10 THEN 1
    ELSE 1 + read_until_newline(Tail(s))

(***************************************************************************)
(* main.rs: write_output, encode, decode, transform_line                   *)
(* A result is [ok, out]: ok is Ok(()) or Err, out the stream afterwards.  *)
(***************************************************************************)
write_output(strings, output) == (output \o Flatten(strings)) \o <<10>>

encode(line, encode_set, output) ==
    [ok |-> TRUE, out |-> write_output(utf8_percent_encode(line, encode_set), output)]

decode_newline_first(line, output, lossy) ==
    LET decoder == percent_decode(line)
    IN  IF lossy
        THEN [ok |-> TRUE, out |-> write_output(<<from_utf8_lossy(decoder)>>, output)]
        ELSE IF from_utf8_ok(decoder)
             THEN [ok |-> TRUE, out |-> write_output(<<decoder>>, output)]
             ELSE [ok |-> FALSE, out |-> output \o <<10>>]

decode(line, output, lossy) ==
    LET decoder == percent_decode(line)
    IN  IF lossy
        THEN [ok |-> TRUE, out |-> write_output(<<from_utf8_lossy(decoder)>>, output)]
        ELSE IF from_utf8_ok(decoder)
             THEN [ok |-> TRUE, out |-> write_output(<<decoder>>, output)]
             ELSE [ok |-> FALSE, out |-> output]

transform_line_lossy_unless_decode(line, output, am) ==
    LET decode_mode == am.decode \/ am.strict
        lossy == am.decode
    IN  IF decode_mode THEN decode(line, output, lossy)
        ELSE encode(line, am.encode_set, output)

transform_line(line, output, am) ==
    LET decode_mode == am.decode \/ am.strict
        lossy == ~am.strict
    IN  IF decode_mode THEN decode(line, output, lossy)
        ELSE encode(line, am.encode_set, output)

(***************************************************************************)
(* The program                                                             *)
(***************************************************************************)
VARIABLES
    arg_matches,  \* [decode, strict, encode_set, has_input, INPUT]
    stdin,        \* the bytes of standard input
    pos,          \* how many of them have been read
    buf,          \* the line buffer of run
    stdout,       \* the bytes written to standard output
    pc,           \* "run", "read_line", "transform", "exited"
    exit_code,    \* -1 while running
    again         \* a second run, decoding the line the first one wrote

vars == <<arg_matches, stdin, pos, buf, stdout, pc, exit_code, again>>

NotAgain == [done |-> FALSE, lossy |-> FALSE, ok |-> FALSE, out |-> <<>>]

\* run, lines 68-71 and main, lines 56-59: INPUT is given
RunInput ==
    /\ pc = "run"
    /\ arg_matches.has_input
    /\ LET r == transform_line(arg_matches.INPUT, stdout, arg_matches)
       IN  /\ stdout' = r.out
           /\ exit_code' = IF r.ok THEN 0 ELSE 1
    /\ pc' = "exited"
    /\ UNCHANGED <<arg_matches, stdin, pos, buf, again>>

\* run, lines 68 and 73: no INPUT, an empty buffer
RunStdin ==
    /\ pc = "run"
    /\ ~arg_matches.has_input
    /\ buf' = <<>>
    /\ pc' = "read_line"
    /\ UNCHANGED <<arg_matches, stdin, pos, stdout, exit_code, again>>

\* run, line 75: read_line returns Ok(0) at the end of the input, Err for
\* a line that is not UTF-8, Ok(n) with the line in buf otherwise
ReadLine ==
    /\ pc = "read_line"
    /\ LET rest == Drop(stdin, pos)
           n    == read_until_newline(rest)
           line == Take(rest, n)
       IN  /\ pos' = pos + n
           /\ IF n = 0
              THEN /\ pc' = "exited" /\ exit_code' = 0 /\ buf' = buf
              ELSE IF ~from_utf8_ok(line)
              THEN /\ pc' = "exited" /\ exit_code' = 1 /\ buf' = buf
              ELSE /\ pc' = "transform" /\ exit_code' = exit_code
                   /\ buf' = buf \o line
    /\ UNCHANGED <<arg_matches, stdin, stdout, again>>

TransformLineNoClear ==
    /\ pc = "transform"
    /\ LET r == transform_line(trim_end(buf), stdout, arg_matches)
       IN  /\ stdout' = r.out
           /\ IF r.ok
              THEN /\ pc' = "read_line" /\ exit_code' = exit_code /\ buf' = buf
              ELSE /\ pc' = "exited" /\ exit_code' = 1 /\ buf' = buf
    /\ UNCHANGED <<arg_matches, stdin, pos, again>>

TransformLineGoOn ==
    /\ pc = "transform"
    /\ LET r == transform_line(trim_end(buf), stdout, arg_matches)
       IN  /\ stdout' = r.out
           /\ pc' = "read_line" /\ exit_code' = exit_code /\ buf' = <<>>
    /\ UNCHANGED <<arg_matches, stdin, pos, again>>

\* run, lines 76-77: transform the trimmed line, clear the buffer
TransformLine ==
    /\ pc = "transform"
    /\ LET r == transform_line(trim_end(buf), stdout, arg_matches)
       IN  /\ stdout' = r.out
           /\ IF r.ok
              THEN /\ pc' = "read_line" /\ exit_code' = exit_code /\ buf' = <<>>
              ELSE /\ pc' = "exited" /\ exit_code' = 1 /\ buf' = buf
    /\ UNCHANGED <<arg_matches, stdin, pos, again>>

\* a second run with --decode or --strict-decode whose INPUT is the line an
\* encoding run wrote, without the newline write_output appended
Redecode ==
    /\ pc = "exited"
    /\ exit_code = 0
    /\ arg_matches.has_input
    /\ ~(arg_matches.decode \/ arg_matches.strict)
    /\ ~again.done
    /\ \E strict \in BOOLEAN :
         LET am == [arg_matches EXCEPT !.decode = TRUE, !.strict = strict,
                                       !.INPUT = Take(stdout, Len(stdout) - 1)]
             r  == transform_line(am.INPUT, <<>>, am)
         IN  again' = [done |-> TRUE, lossy |-> ~strict, ok |-> r.ok, out |-> r.out]
    /\ UNCHANGED <<arg_matches, stdin, pos, buf, stdout, pc, exit_code>>

(***************************************************************************)
(* Inputs                                                                  *)
(***************************************************************************)
MaxEncLen == 3

MaxDecPieces == 3

MaxLines == 2

\* every concatenation of at most n members of pieces
RECURSIVE Concats(_, _)
Concats(pieces, n) ==
    IF n = 0 THEN {<<>>}
    ELSE LET shorter == Concats(pieces, n - 1)
         IN  shorter \cup {p \o s : p \in pieces, s \in shorter}

\* 'a', ' ', '/', '%', '4', U+00E9, DEL, TAB
EncChars == {<<97>>, <<32>>, <<47>>, <<37>>, <<52>>, <<195, 169>>, <<127>>, <<9>>}

a_b_slash_c == <<97, 32, 98, 47, 99>>

EncTexts == Concats(EncChars, MaxEncLen) \cup {a_b_slash_c}

\* '%', 'a', 'F', '4', '+', U+00E9, "%FF", "%C3", "%A9", "%E2", "%82"
DecPieces ==
    {<<37>>, <<97>>, <<70>>, <<52>>, <<43>>, <<195, 169>>, <<37, 70, 70>>,
     <<37, 67, 51>>, <<37, 65, 57>>, <<37, 69, 50>>, <<37, 56, 50>>}

hundred_percent_done == <<49, 48, 48, 37, 32, 100, 111, 110, 101>>

pFF_pFE == <<37, 70, 70, 37, 70, 69>>

DecTexts == Concats(DecPieces, MaxDecPieces) \cup {hundred_percent_done, pFF_pFE}

\* "", "a b", "c/d ", "%FF", "%0A", and the byte 0xFF, which is not UTF-8
LineContents ==
    {<<>>, <<97, 32, 98>>, <<99, 47, 100, 32>>, <<37, 70, 70>>, <<37, 48, 65>>,
     <<255>>}

\* each of them ended by "\n", and "a b" ended by "\r\n"
TerminatedLines == {c \o <<10>> : c \in LineContents} \cup {<<97, 32, 98, 13, 10>>}

\* at most n lines, the last one with or without its terminator
StdinContents(n) ==
    Concats(TerminatedLines, n)
    \cup (IF n = 0 THEN {}
          ELSE {s \o c : s \in Concats(TerminatedLines, n - 1),
                         c \in LineContents \ {<<>>}})

InputArgs == {c \in LineContents : from_utf8_ok(c)} \cup {<<97, 9>>}

Flags == [decode : BOOLEAN, strict : BOOLEAN, encode_set : EncodeSetNames]

ArgMatches(f, has_input, input) ==
    [decode |-> f.decode, strict |-> f.strict, encode_set |-> f.encode_set,
     has_input |-> has_input, INPUT |-> input]

InitWith(am, in) ==
    /\ arg_matches = am
    /\ stdin = in
    /\ pos = 0
    /\ buf = <<>>
    /\ stdout = <<>>
    /\ pc = "run"
    /\ exit_code = -1
    /\ again = NotAgain

(***************************************************************************)
(* Spec: the program, with INPUT or with standard input                    *)
(***************************************************************************)
Init ==
    \E f \in Flags :
        \/ \E i \in InputArgs : InitWith(ArgMatches(f, TRUE, i), <<>>)
        \/ \E s \in StdinContents(MaxLines) : InitWith(ArgMatches(f, FALSE, <<>>), s)

Next == RunInput \/ RunStdin \/ ReadLine \/ TransformLine

Spec == Init /\ [][Next]_vars

(***************************************************************************)
(* SpecEnc: an encoding run on INPUT, and a decoding run on what it wrote  *)
(***************************************************************************)
InitEnc ==
    \E f \in {g \in Flags : ~g.decode /\ ~g.strict} :
        \E i \in EncTexts : InitWith(ArgMatches(f, TRUE, i), <<>>)

NextEnc == RunInput \/ Redecode

SpecEnc == InitEnc /\ [][NextEnc]_vars

(***************************************************************************)
(* SpecDec: a decoding run on INPUT                                        *)
(***************************************************************************)
InitDec ==
    \E f \in {g \in Flags : (g.decode \/ g.strict) /\ g.encode_set = "default"} :
        \E i \in DecTexts : InitWith(ArgMatches(f, TRUE, i), <<>>)

NextDec == RunInput

SpecDec == InitDec /\ [][NextDec]_vars

(***************************************************************************)
(* Vocabulary of the properties                                            *)
(***************************************************************************)
IsHex(b) == b \in (48..57) \cup (65..70) \cup (97..102)

UpperHex == <<48, 49, 50, 51, 52, 53, 54, 55, 56, 57, 65, 66, 67, 68, 69, 70>>

\* '%' and the two upper-case hexadecimal digits of b
TripleOf(b) == <<37, UpperHex[(b \div 16) + 1], UpperHex[(b % 16) + 1]>>

ControlOrNonAscii == (0..31) \cup {127} \cup (128..255)

\* a '%' of s that two hexadecimal digits follow
HasEscapeTriple(s) ==
    \E i \in 1..Len(s) :
        s[i] = 37 /\ i + 2 <= Len(s) /\ IsHex(s[i + 1]) /\ IsHex(s[i + 2])

\* out is in, byte by byte, each byte either raw or as its triple; the
\* bytes of must are triples and the bytes of raw are raw
RECURSIVE Aligned(_, _, _, _)
Aligned(in, out, must, raw) ==
    IF in = <<>> THEN out = <<>>
    ELSE LET b == Head(in)
         IN  \/ /\ b \notin raw
                /\ Len(out) >= 3
                /\ Take(out, 3) = TripleOf(b)
                /\ Aligned(Tail(in), Drop(out, 3), must, raw)
             \/ /\ b \notin must
                /\ Len(out) >= 1
                /\ out[1] = b
                /\ Aligned(Tail(in), Tail(out), must, raw)

Encoding == ~arg_matches.decode /\ ~arg_matches.strict

a_pct20_b_slash_c == <<97, 37, 50, 48, 98, 47, 99>>

a_pct20_b_pct2F_c == <<97, 37, 50, 48, 98, 37, 50, 70, 99>>

\* C3 as stated: "a b/c" is written as "a%20b%2Fc" under the default set
\* and as "a%20b/c" under the simple set, each followed by a newline.
C3_LiteralsAsStated ==
    (pc = "exited" /\ arg_matches.INPUT = a_b_slash_c) =>
        /\ arg_matches.encode_set = "default" => stdout = a_pct20_b_pct2F_c \o <<10>>
        /\ arg_matches.encode_set = "simple" => stdout = a_pct20_b_slash_c \o <<10>>

\* C3, amended: "a b/c" is written as "a%20b/c" under the default set (the
\* space is escaped, '/' is not), unchanged as "a b/c" under the simple set
\* (neither is escaped), and as "a%20b%2Fc" under the path set, each
\* followed by a newline.
C3_Literals ==
    (pc = "exited" /\ arg_matches.INPUT = a_b_slash_c) =>
        /\ exit_code = 0
        /\ arg_matches.encode_set = "default" => stdout = a_pct20_b_slash_c \o <<10>>
        /\ arg_matches.encode_set = "simple" => stdout = a_b_slash_c \o <<10>>
        /\ arg_matches.encode_set = "path" => stdout = a_pct20_b_pct2F_c \o <<10>>

\* "a b/c" has been encoded with the path set
C3_Witness ==
    /\ pc = "exited"
    /\ arg_matches.INPUT = a_b_slash_c
    /\ arg_matches.encode_set = "path"
    /\ stdout = a_pct20_b_pct2F_c \o <<10>>

(***************************************************************************)
(* UTF-8 by its definition: the encodings of the scalar values             *)
(***************************************************************************)
Cont(s, i) == i <= Len(s) /\ s[i] >= 128 /\ s[i] <= 191

\* the length of the encoding of one scalar value at the head of s, or 0
ScalarLen(s) ==
    IF s = <<>> THEN 0
    ELSE IF s[1] < 128 THEN 1
    ELSE IF s[1] >= 192 /\ s[1] <= 223 /\ Cont(s, 2)
         THEN LET cp == (s[1] - 192) * 64 + (s[2] - 128)
              IN  IF cp >= 128 THEN 2 ELSE 0
    ELSE IF s[1] >= 224 /\ s[1] <= 239 /\ Cont(s, 2) /\ Cont(s, 3)
         THEN LET cp == (s[1] - 224) * 4096 + (s[2] - 128) * 64 + (s[3] - 128)
              IN  IF cp >= 2048 /\ cp \notin 55296..57343 THEN 3 ELSE 0
    ELSE IF s[1] >= 240 /\ s[1] <= 247 /\ Cont(s, 2) /\ Cont(s, 3) /\ Cont(s, 4)
         THEN LET cp == (s[1] - 240) * 262144 + (s[2] - 128) * 4096
                        + (s[3] - 128) * 64 + (s[4] - 128)
              IN  IF cp >= 65536 /\ cp <= 1114111 THEN 4 ELSE 0
    ELSE 0

RECURSIVE ValidUtf8(_)
ValidUtf8(s) ==
    IF s = <<>> THEN TRUE
    ELSE LET n == ScalarLen(s) IN n > 0 /\ ValidUtf8(Drop(s, n))

\* out is in with every character kept and every invalid stretch replaced
\* by one or more U+FFFD, each standing for 1 to 3 bytes none of which,
\* after the first, starts a character
RECURSIVE LossyAligned(_, _)
LossyAligned(in, out) ==
    IF in = <<>> THEN out = <<>>
    ELSE LET n == ScalarLen(in)
         IN  IF n > 0
             THEN /\ Len(out) >= n
                  /\ Take(out, n) = Take(in, n)
                  /\ LossyAligned(Drop(in, n), Drop(out, n))
             ELSE /\ Len(out) >= 3
                  /\ Take(out, 3) = <<239, 191, 189>>
                  /\ \E k \in 1..3 :
                        /\ k <= Len(in)
                        /\ \A j \in 1..(k - 1) : ScalarLen(Drop(in, j)) = 0
                        /\ LossyAligned(Drop(in, k), Drop(out, 3))

\* the places of s where a '%' and two hexadecimal digits stand
EscapeStarts(s) ==
    {i \in 1..Len(s) :
        s[i] = 37 /\ i + 2 <= Len(s) /\ IsHex(s[i + 1]) /\ IsHex(s[i + 2])}

HexValue(b) ==
    IF b \in 48..57 THEN b - 48 ELSE IF b \in 65..70 THEN b - 55 ELSE b - 87

\* s with every escape replaced by its byte, place by place
Unescaped(s) ==
    LET E    == EscapeStarts(s)
        kept == {i \in 1..Len(s) : (i - 1) \notin E /\ (i - 2) \notin E}
        at(k) == CHOOSE i \in kept : Cardinality({j \in kept : j < i}) = k - 1
    IN  [k \in 1..Cardinality(kept) |->
            IF at(k) \in E
            THEN 16 * HexValue(s[at(k) + 1]) + HexValue(s[at(k) + 2])
            ELSE s[at(k)]]

Body(out) == Take(out, Len(out) - 1)

EndsInNewline(out) == out # <<>> /\ out[Len(out)] = 10

(***************************************************************************)
(* C4: strict and lossy decoding of invalid UTF-8                          *)
(***************************************************************************)
\* C4: when the unescaped bytes of the line are not valid UTF-8, a strict
\* decode fails and writes nothing, and a lossy decode succeeds and writes
\* the text with the invalid bytes replaced by U+FFFD and a newline
\* ("%FF%FE" gives two U+FFFD); when they are valid, both modes write the
\* unescaped text and a newline.
C4_StrictAndLossy ==
    pc = "exited" =>
        LET raw == percent_decode(arg_matches.INPUT)
        IN  /\ (arg_matches.strict /\ ~ValidUtf8(raw)) =>
                  exit_code = 1 /\ stdout = <<>>
            /\ ~arg_matches.strict =>
                  /\ exit_code = 0
                  /\ EndsInNewline(stdout)
                  /\ LossyAligned(raw, Body(stdout))
            /\ ValidUtf8(raw) => exit_code = 0 /\ stdout = raw \o <<10>>
            /\ (~arg_matches.strict /\ arg_matches.INPUT = pFF_pFE) =>
                  stdout = <<239, 191, 189, 239, 191, 189, 10>>

\* the strict decode of "%FF%FE" has failed with nothing written
C4_Witness ==
    /\ pc = "exited"
    /\ arg_matches.strict
    /\ arg_matches.INPUT = pFF_pFE
    /\ exit_code = 1
    /\ stdout = <<>>

(***************************************************************************)
(* C5: malformed escapes pass through                                      *)
(***************************************************************************)
\* C5: the decoder replaces each '%' followed by two hexadecimal digits by
\* the byte they encode and copies every other byte, a '%' without two
\* hexadecimal digits after it included; a line without a well-formed
\* escape is written unchanged and without error in both modes, as
\* "100% done" is.
C5_MalformedPassthrough ==
    pc = "exited" =>
        LET exp == Unescaped(arg_matches.INPUT)
        IN  /\ ~HasEscapeTriple(arg_matches.INPUT) =>
                  exit_code = 0 /\ stdout = arg_matches.INPUT \o <<10>>
            /\ ValidUtf8(exp) => exit_code = 0 /\ stdout = exp \o <<10>>
            /\ (~ValidUtf8(exp) /\ ~arg_matches.strict) =>
                  EndsInNewline(stdout) /\ LossyAligned(exp, Body(stdout))
            /\ arg_matches.INPUT = hundred_percent_done =>
                  stdout = hundred_percent_done \o <<10>>

\* "100% done" has been decoded strictly
C5_Witness ==
    /\ pc = "exited"
    /\ arg_matches.strict
    /\ arg_matches.INPUT = hundred_percent_done
    /\ exit_code = 0
    /\ stdout = hundred_percent_done \o <<10>>

(***************************************************************************)
(* C10: decoding text without '%'                                          *)
(***************************************************************************)
\* C10: a line without a '%' is written unchanged, followed by a newline,
\* without error, by the lossy and by the strict decoder.
C10_NoPercentIdentity ==
    (pc = "exited" /\ (arg_matches.decode \/ arg_matches.strict)
       /\ \A i \in 1..Len(arg_matches.INPUT) : arg_matches.INPUT[i] # 37) =>
        exit_code = 0 /\ stdout = arg_matches.INPUT \o <<10>>

\* "a+" and U+00E9 have been decoded lossily
C10_Witness ==
    /\ pc = "exited"
    /\ arg_matches.decode /\ ~arg_matches.strict
    /\ arg_matches.INPUT = <<97, 43, 195, 169>>
    /\ stdout = <<97, 43, 195, 169, 10>>

(***************************************************************************)
(* The lines of standard input, by the places of its newlines              *)
(***************************************************************************)
Newlines(s) == {i \in 1..Len(s) : s[i] = 10}

\* the number of lines of s; an unterminated rest is a line
LineCount(s) ==
    Cardinality(Newlines(s)) + (IF s # <<>> /\ s[Len(s)] # 10 THEN 1 ELSE 0)

\* the place of the last byte of line k
LineEnd(s, k) ==
    IF k = 0 THEN 0
    ELSE IF k <= Cardinality(Newlines(s))
         THEN CHOOSE i \in Newlines(s) : Cardinality({j \in Newlines(s) : j < i}) = k - 1
         ELSE Len(s)

\* line k of s, its terminator included
Line(s, k) == SubSeq(s, LineEnd(s, k - 1) + 1, LineEnd(s, k))

\* how many lines end at or before place p
LinesBefore(s, p) == Cardinality({k \in 1..LineCount(s) : LineEnd(s, k) <= p})

\* what one line gives when nothing was written before it
LineResult(line) == transform_line(trim_end(line), <<>>, arg_matches)

LineFails(line) == ~ValidUtf8(line) \/ ~LineResult(line).ok

\* the first line that cannot be read or transformed, LineCount + 1 if none
FirstFailure(s) ==
    LET bad == {k \in 1..LineCount(s) : LineFails(Line(s, k))}
    IN  IF bad = {} THEN LineCount(s) + 1
        ELSE CHOOSE k \in bad : \A j \in bad : k <= j

\* the outputs of lines 1..n, in order
RECURSIVE OutputsUpTo(_, _)
OutputsUpTo(s, n) ==
    IF n = 0 THEN <<>>
    ELSE OutputsUpTo(s, n - 1) \o LineResult(Line(s, n)).out

IsPrefix(p, s) == Len(p) <= Len(s) /\ Take(s, Len(p)) = p

StdinMode == ~arg_matches.has_input

(***************************************************************************)
(* C6: mode dispatch                                                       *)
(***************************************************************************)
\* what the flags select for one line: the decoder when --decode or
\* --strict-decode is given, strict when --strict-decode is given, the
\* encoder with the set of --encode-set otherwise
Dispatched(line) ==
    IF arg_matches.strict THEN decode(line, <<>>, FALSE)
    ELSE IF arg_matches.decode THEN decode(line, <<>>, TRUE)
    ELSE CASE arg_matches.encode_set = "default" ->
                  [ok |-> TRUE,
                   out |-> Flatten(utf8_percent_encode(line, "default")) \o <<10>>]
           [] arg_matches.encode_set = "path" ->
                  [ok |-> TRUE,
                   out |-> Flatten(utf8_percent_encode(line, "path")) \o <<10>>]
           [] arg_matches.encode_set = "query" ->
                  [ok |-> TRUE,
                   out |-> Flatten(utf8_percent_encode(line, "query")) \o <<10>>]
           [] arg_matches.encode_set = "simple" ->
                  [ok |-> TRUE,
                   out |-> Flatten(utf8_percent_encode(line, "simple")) \o <<10>>]
           [] arg_matches.encode_set = "userinfo" ->
                  [ok |-> TRUE,
                   out |-> Flatten(utf8_percent_encode(line, "userinfo")) \o <<10>>]

RECURSIVE DispatchedUpTo(_, _)
DispatchedUpTo(s, n) ==
    IF n = 0 THEN <<>>
    ELSE DispatchedUpTo(s, n - 1) \o Dispatched(trim_end(Line(s, n))).out

\* C6: the decoder runs iff --decode or --strict-decode is present, strictly
\* iff --strict-decode is present, whatever --encode-set says; otherwise the
\* encoder runs with the set --encode-set names; every line of a run gets
\* the same choice.
C6_ModeDispatch ==
    /\ (pc = "exited" /\ arg_matches.has_input) =>
          /\ stdout = Dispatched(arg_matches.INPUT).out
          /\ exit_code = (IF Dispatched(arg_matches.INPUT).ok THEN 0 ELSE 1)
    /\ (pc = "read_line" /\ StdinMode) =>
          stdout = DispatchedUpTo(stdin, LinesBefore(stdin, pos))
    /\ (pc = "exited" /\ StdinMode /\ arg_matches.strict /\ exit_code = 0) =>
          \A k \in 1..LineCount(stdin) : ValidUtf8(percent_decode(trim_end(Line(stdin, k))))

\* --decode with --strict-decode and --encode-set simple: "%FF" is refused
C6_Witness ==
    /\ pc = "exited"
    /\ arg_matches.decode /\ arg_matches.strict
    /\ arg_matches.encode_set = "simple"
    /\ arg_matches.INPUT = <<37, 70, 70>>
    /\ exit_code = 1
    /\ stdout = <<>>

(***************************************************************************)
(* C7: line count and order                                                *)
(***************************************************************************)
NewlineCount(s) == Cardinality(Newlines(s))

\* C7 as stated: a run on n input lines that ends without error has
\* written exactly n lines, each ended by one newline.
C7_OneOutputLinePerInputLine ==
    (pc = "exited" /\ StdinMode /\ exit_code = 0) =>
        NewlineCount(stdout) = LineCount(stdin)

\* C7, amended: whenever the next line is about to be read, and at the end
\* of a run without error, the output is the outputs of the lines read so
\* far, one per line (empty lines and an unterminated last line included),
\* in their order, complete, each ended by the one newline write_output
\* appends; a run without error has read all n lines.  When encoding, these
\* are exactly n output lines; a decoded line may contain newlines of its
\* own ("%0A"), so the output of a decoding run can have more than n lines.
C7_LineCountAndOrder ==
    StdinMode =>
        LET r == LinesBefore(stdin, pos)
        IN  /\ pos = LineEnd(stdin, r)
            /\ pc = "read_line" => stdout = OutputsUpTo(stdin, r)
            /\ pc = "transform" =>
                  /\ r >= 1
                  /\ buf = Line(stdin, r)
                  /\ stdout = OutputsUpTo(stdin, r - 1)
            /\ (pc = "exited" /\ exit_code = 0) =>
                  /\ r = LineCount(stdin)
                  /\ stdout = OutputsUpTo(stdin, r)
                  /\ \A k \in 1..r : EndsInNewline(LineResult(Line(stdin, k)).out)
                  /\ Encoding => NewlineCount(stdout) = LineCount(stdin)

\* an encoding run on "\n" and an unterminated "a b" has written two lines
C7_Witness ==
    /\ pc = "exited"
    /\ exit_code = 0
    /\ StdinMode
    /\ arg_matches.encode_set = "default" /\ Encoding
    /\ stdin = <<10, 97, 32, 98>>
    /\ stdout = <<10, 97, 37, 50, 48, 98, 10>>

strip_terminator(s) ==
    IF EndsWith(s, <<13, 10>>) THEN Take(s, Len(s) - 2)
    ELSE IF EndsWith(s, <<10>>) THEN Take(s, Len(s) - 1)
    ELSE s

RECURSIVE FramedUpTo(_, _)
FramedUpTo(s, n) ==
    IF n = 0 THEN <<>>
    ELSE FramedUpTo(s, n - 1)
         \o transform_line(strip_terminator(Line(s, n)), <<>>, arg_matches).out

\* C9 as stated: the text given to the transform is the line without its
\* terminator, trailing spaces and tabs kept, so that every line gives what
\* it gives as the positional INPUT.
C9_OnlyTerminatorRemoved ==
    (StdinMode /\ pc = "read_line") =>
        stdout = FramedUpTo(stdin, LinesBefore(stdin, pos))

=============================================================================
